---- MODULE Spec2Model ----
(***************************************************************************)
(* The (s, S) inventory simulation of src/tools/simpy/inventory_control.py *)
(* (run_simulation) as a state machine.                                    *)
(*                                                                         *)
(* One call of run_simulation is a record `run[c]`; its program counter    *)
(* walks the five numbered steps of inventory_process once per day.  The   *)
(* module-level `random` generator is the one piece of state that all      *)
(* calls of a process share: `rng` is its internal state, `stream` the     *)
(* (fixed, unknown) sequence of values it produces.                        *)
(*                                                                         *)
(* Money is kept in whole units: the rates of the source are 1.0, 20.0     *)
(* and 5.0, every amount the code adds is an integer-valued float far      *)
(* below 2^53, so float addition is exact and integers model it.           *)
(*                                                                         *)
(* The second part models the application state of src/app/state (the      *)
(* files graph.json and products.json) with the tools that read and write  *)
(* it: `fs` is the state directory, `last` the tool call made last, `task` *)
(* the saves and loads that run concurrently.                              *)
(***************************************************************************)
EXTENDS Integers, Sequences, FiniteSets, TLC

(***************************************************************************)
(* Bounds of the model.  The source runs 365 days with demand_mean = 5;    *)
(* the model keeps the names and shrinks the values.                       *)
(***************************************************************************)
\* horizon: `days = 365` in the source (line 70)
days == 3
\* `demand_mean = 5` in the source (line 71); a day makes 2 * demand_mean trials
demand_mean == 1
\* policy parameters s and S range over -1 .. MaxS
MaxS == 2
\* period of the modelled pseudo-random generator
Period == 4

(***************************************************************************)
(* Program constants (lines 72-77).                                        *)
(***************************************************************************)
lead_time_min == 2
lead_time_max == 5
holding_cost == 1
order_cost == 20
stockout_cost == 5
seed == 1

Calls == {"A", "B"}
PolicyValues == (0 - 1) .. MaxS

\* Python's None for an optional object: the empty tuple; an object x is <<x>>.
None == << >>
\* simpy.events.PENDING, the value of an event that has not been triggered
PENDING == "PENDING"
\* ghost: `arrived` of an order that has not been added to the level yet
NotArrived == 0 - 1

VARIABLES
    stream,   \* the generator's output: position -> raw value
    rng,      \* state of the process-wide `random` generator (a position)
    run,      \* per call: the locals of run_simulation / inventory_process
    fs,       \* the state directory src/app/state: file name -> text
    last,     \* the tool call made last: its name, arguments and return value
    task      \* per concurrent file operation: its locals and position

simVars == <<stream, rng, run>>
appVars == <<fs, last, task>>
vars == <<stream, rng, run, fs, last, task>>

\* a state directory with no file in it, no tool call made, no file operation
NoFiles == << >>
NoCall == [op |-> "none"]
NoTasks == << >>
\* the application while the process only runs simulations
AppIdle == fs = NoFiles /\ last = NoCall /\ task = NoTasks

(***************************************************************************)
(* The `random` module.  A raw value stands for one output of the          *)
(* generator; random() and randint() read it in their own way.             *)
(***************************************************************************)
RawValues == 0 .. (lead_time_max - lead_time_min)

\* random.seed(a): the state is a function of the seed alone
SeedRng_skipped(g, a) == g
SeedRng(g, a) == a % Period

\* the generator's state after one output
Advance(g) == (g + 1) % Period

\* `random.random() < 0.5` on the raw value: the lower half of the range
BelowHalf(raw) == 2 * raw < Cardinality(RawValues)

\* random.randint(a, b): uniform on a .. b inclusive
randint_shifted(a, b, raw) == a + 1 + (raw % (b - a + 1))
randint(a, b, raw) == a + (raw % (b - a + 1))

(***************************************************************************)
(* simpy.  env.timeout(delay) builds a Timeout: simpy sets the event's     *)
(* value at construction (Timeout.__init__ stores `value`, default None,   *)
(* in _value and schedules the event), and Event.triggered is              *)
(* `_value is not PENDING`.                                                *)
(***************************************************************************)
Timeout(now, delay) == [delay |-> delay, at |-> now + delay, value |-> "None"]

triggered(ev) == ev.value # PENDING

\* line 109: `arrival_event and arrival_event.triggered`
Arrives_whenDue(r) == r.arrival_event # None /\ r.arrival_event[1].at <= r.now
Arrives(r) == r.arrival_event # None /\ triggered(r.arrival_event[1])

(***************************************************************************)
(* run_simulation, lines 70-103: the state a call starts from.             *)
(* Ghost fields (not in the source): orders, iterations, demandCalls.      *)
(***************************************************************************)
NewRun(pc, s, S) ==
    [pc |-> pc, s |-> s, S |-> S,
     day |-> 0, now |-> 0, queue |-> << >>,
     level |-> S,
     cost |-> [holding |-> 0, ordering |-> 0, stockout |-> 0],
     on_order |-> 0, arrival_event |-> None,
     trial |-> 0, hits |-> 0, demand |-> 0,
     result |-> None,
     orders |-> << >>, iterations |-> 0, demandCalls |-> 0]

\* line 105: `for day in range(days)`
LoopContinues_offByOne(day) == day <= days
LoopContinues(day) == day < days

\* lines 70-105: constants, state, process start, first loop test
Start(r) ==
    [NewRun("arrival", r.s, r.S) EXCEPT
        !.pc = IF LoopContinues(0) THEN "arrival" ELSE "return"]

\* ghost: the order the tracker holds is the last one placed
MarkArrived(orders, day) ==
    IF orders = << >> THEN orders
    ELSE [orders EXCEPT ![Len(orders)].arrived = day]

\* lines 106-112: step 1, arrival of the scheduled replenishment
ArrivalStep_keepsEvent(r) ==
    LET q == [r EXCEPT !.pc = "draw", !.trial = 0, !.hits = 0,
                       !.iterations = @ + 1]
    IN  IF Arrives(r)
        THEN [q EXCEPT !.level = @ + r.on_order,
                       !.on_order = 0,
                       !.orders = MarkArrived(@, r.day)]
        ELSE q
ArrivalStep_keepsOrder(r) ==
    LET q == [r EXCEPT !.pc = "draw", !.trial = 0, !.hits = 0,
                       !.iterations = @ + 1]
    IN  IF Arrives(r)
        THEN [q EXCEPT !.level = @ + r.on_order,
                       !.orders = MarkArrived(@, r.day)]
        ELSE q
ArrivalStep(r) ==
    LET q == [r EXCEPT !.pc = "draw", !.trial = 0, !.hits = 0,
                       !.iterations = @ + 1]
    IN  IF Arrives(r)
        THEN [q EXCEPT !.level = @ + r.on_order,
                       !.on_order = 0,
                       !.arrival_event = None,
                       !.orders = MarkArrived(@, r.day)]
        ELSE q

\* lines 96-99: one Bernoulli trial of generate_demand
TrialStep_countsTwice(r, raw) ==
    [r EXCEPT !.trial = @ + 1,
              !.hits = IF BelowHalf(raw) THEN @ + 2 ELSE @]
TrialStep(r, raw) ==
    [r EXCEPT !.trial = @ + 1,
              !.hits = IF BelowHalf(raw) THEN @ + 1 ELSE @]

\* lines 117-123: step 2, demand realization
DemandStep_flatPenalty(r) ==
    LET demand == r.hits
        q == [r EXCEPT !.demand = demand, !.demandCalls = @ + 1,
                       !.pc = "holding"]
    IN  IF demand <= r.level
        THEN [q EXCEPT !.level = @ - demand]
        ELSE [q EXCEPT !.level = 0,
                       !.cost.stockout = @ + stockout_cost]
DemandStep_beforeArrival(r) ==
    LET demand == r.hits
        today == r.orders # << >> /\ r.orders[Len(r.orders)].arrived = r.day
        qty == IF today THEN r.orders[Len(r.orders)].qty ELSE 0
        level == r.level - qty
        q == [r EXCEPT !.demand = demand, !.demandCalls = @ + 1,
                       !.pc = "holding"]
    IN  IF demand <= level
        THEN [q EXCEPT !.level = level - demand + qty]
        ELSE [q EXCEPT !.level = qty,
                       !.cost.stockout = @ + (demand - level) * stockout_cost]
DemandStep_noClamp(r) ==
    [r EXCEPT !.demand = r.hits, !.demandCalls = @ + 1, !.pc = "holding",
              !.level = @ - r.hits]
DemandStep_signSlip(r) ==
    LET demand == r.hits
        q == [r EXCEPT !.demand = demand, !.demandCalls = @ + 1,
                       !.pc = "holding"]
    IN  IF demand <= r.level
        THEN [q EXCEPT !.level = @ - demand]
        ELSE LET shortage == r.level - demand
             IN  [q EXCEPT !.level = 0,
                           !.cost.stockout = @ + shortage * stockout_cost]
DemandStep(r) ==
    LET demand == r.hits
        q == [r EXCEPT !.demand = demand, !.demandCalls = @ + 1,
                       !.pc = "holding"]
    IN  IF demand <= r.level
        THEN [q EXCEPT !.level = @ - demand]
        ELSE LET shortage == demand - r.level
             IN  [q EXCEPT !.level = 0,
                           !.cost.stockout = @ + shortage * stockout_cost]

\* lines 125-128: step 3, holding cost
HoldingStep_preDemand(r) ==
    [r EXCEPT !.cost.holding = @ + (r.level + r.demand) * holding_cost,
              !.pc = "reorder"]
HoldingStep(r) ==
    [r EXCEPT !.cost.holding = @ + r.level * holding_cost,
              !.pc = "reorder"]

\* line 133: the reorder condition
Reorders_strict(r) == r.level < r.s /\ r.on_order = 0
Reorders_always(r) == r.on_order = 0
Reorders(r) == r.level <= r.s /\ r.on_order = 0

\* lines 130-140: step 4, reorder decision; env.timeout raises on a
\* negative delay
ReorderStep_feePerUnit(r, raw) ==
    IF Reorders(r)
    THEN LET qty == r.S - r.level
             delay == randint(lead_time_min, lead_time_max, raw)
         IN  [r EXCEPT
                !.on_order = qty,
                !.cost.ordering = @ + order_cost * qty,
                !.arrival_event = <<Timeout(r.now, delay)>>,
                !.queue = Append(@, r.now + delay),
                !.orders = Append(@, [placed |-> r.day, lead |-> delay,
                                      qty |-> qty,
                                      arrived |-> NotArrived]),
                !.pc = "advance"]
    ELSE [r EXCEPT !.pc = "advance"]
ReorderStep_instant(r, raw) ==
    IF Reorders(r)
    THEN LET qty == r.S - r.level
             delay == randint(lead_time_min, lead_time_max, raw)
         IN  [r EXCEPT
                !.level = @ + qty,
                !.cost.ordering = @ + order_cost,
                !.orders = Append(@, [placed |-> r.day, lead |-> delay,
                                      qty |-> qty, arrived |-> r.day]),
                !.pc = "advance"]
    ELSE [r EXCEPT !.pc = "advance"]
ReorderStep(r, raw) ==
    IF Reorders(r)
    THEN LET qty == r.S - r.level
             delay == randint(lead_time_min, lead_time_max, raw)
         IN  IF delay < 0
             THEN [r EXCEPT !.pc = "error"]
             ELSE [r EXCEPT
                     !.on_order = qty,
                     !.cost.ordering = @ + order_cost,
                     !.arrival_event = <<Timeout(r.now, delay)>>,
                     !.queue = Append(@, r.now + delay),
                     !.orders = Append(@, [placed |-> r.day, lead |-> delay,
                                           qty |-> qty,
                                           arrived |-> NotArrived]),
                     !.pc = "advance"]
    ELSE [r EXCEPT !.pc = "advance"]

\* the events of the queue that are still to come after time t
Later(queue, t) == SelectSeq(queue, LAMBDA at : at > t)

\* lines 142-145 and 105: step 5, `yield env.timeout(1)`, then the loop test.
\* The environment processes every event due up to the wake-up time.
AdvanceStep(r) ==
    [r EXCEPT !.now = @ + 1,
              !.queue = Later(@, r.now + 1),
              !.day = @ + 1,
              !.pc = IF LoopContinues(r.day + 1) THEN "arrival" ELSE "return"]

\* lines 153-161: the returned dict
Result_noStockout(r) ==
    [total_cost |-> r.cost.holding + r.cost.ordering,
     holding_cost |-> r.cost.holding,
     ordering_cost |-> r.cost.ordering,
     stockout_cost |-> r.cost.stockout,
     ending_inventory |-> r.level]
Result(r) ==
    [total_cost |-> r.cost.holding + r.cost.ordering + r.cost.stockout,
     holding_cost |-> r.cost.holding,
     ordering_cost |-> r.cost.ordering,
     stockout_cost |-> r.cost.stockout,
     ending_inventory |-> r.level]

RECURSIVE MaxOf(_, _)
MaxOf(queue, t) ==
    IF queue = << >> THEN t
    ELSE MaxOf(Tail(queue), IF Head(queue) > t THEN Head(queue) ELSE t)

\* lines 151-161: env.run() processes the events left, the dict is built
ReturnStep(r) ==
    [r EXCEPT !.now = MaxOf(r.queue, r.now),
              !.queue = << >>,
              !.result = <<Result(r)>>,
              !.pc = "done"]

(***************************************************************************)
(* Actions: one per step of a call.  Each reads the shared generator at    *)
(* most once.                                                              *)
(***************************************************************************)
Call(c) ==
    /\ run[c].pc = "ready"
    /\ rng' = SeedRng(rng, seed)
    /\ run' = [run EXCEPT ![c] = Start(run[c])]
    /\ UNCHANGED stream
    /\ UNCHANGED appVars

ArrivalCheck(c) ==
    /\ run[c].pc = "arrival"
    /\ run' = [run EXCEPT ![c] = ArrivalStep(run[c])]
    /\ UNCHANGED <<stream, rng>>
    /\ UNCHANGED appVars

DemandTrial(c) ==
    /\ run[c].pc = "draw"
    /\ run[c].trial < demand_mean * 2
    /\ run' = [run EXCEPT ![c] = TrialStep(run[c], stream[rng])]
    /\ rng' = Advance(rng)
    /\ UNCHANGED stream
    /\ UNCHANGED appVars

DemandRealize(c) ==
    /\ run[c].pc = "draw"
    /\ run[c].trial >= demand_mean * 2
    /\ run' = [run EXCEPT ![c] = DemandStep(run[c])]
    /\ UNCHANGED <<stream, rng>>
    /\ UNCHANGED appVars

HoldingCost(c) ==
    /\ run[c].pc = "holding"
    /\ run' = [run EXCEPT ![c] = HoldingStep(run[c])]
    /\ UNCHANGED <<stream, rng>>
    /\ UNCHANGED appVars

Reorder(c) ==
    /\ run[c].pc = "reorder"
    /\ run' = [run EXCEPT ![c] = ReorderStep(run[c], stream[rng])]
    /\ rng' = IF Reorders(run[c]) THEN Advance(rng) ELSE rng
    /\ UNCHANGED stream
    /\ UNCHANGED appVars

AdvanceDay(c) ==
    /\ run[c].pc = "advance"
    /\ run' = [run EXCEPT ![c] = AdvanceStep(run[c])]
    /\ UNCHANGED <<stream, rng>>
    /\ UNCHANGED appVars

Return(c) ==
    /\ run[c].pc = "return"
    /\ run' = [run EXCEPT ![c] = ReturnStep(run[c])]
    /\ UNCHANGED <<stream, rng>>
    /\ UNCHANGED appVars

Step(c) ==
    \/ Call(c)
    \/ ArrivalCheck(c)
    \/ DemandTrial(c)
    \/ DemandRealize(c)
    \/ HoldingCost(c)
    \/ Reorder(c)
    \/ AdvanceDay(c)
    \/ Return(c)

(***************************************************************************)
(* Spec: one call of run_simulation(s, S), for every integer pair of the   *)
(* policy range, from any prior state of the generator.                    *)
(***************************************************************************)
Init ==
    /\ AppIdle
    /\ stream \in [0 .. Period - 1 -> RawValues]
    /\ rng \in 0 .. Period - 1
    /\ \E s \in PolicyValues, S \in PolicyValues :
          run = [c \in Calls |->
                    IF c = "A" THEN NewRun("ready", s, S)
                    ELSE NewRun("off", s, S)]

Next == \E c \in Calls : Step(c)

Spec == Init /\ [][Next]_vars

(***************************************************************************)
(* SpecSeq: two calls with the same (s, S), one after the other in the     *)
(* same process, from any prior state of the generator.                    *)
(***************************************************************************)
InitSeq ==
    /\ AppIdle
    /\ stream \in [0 .. Period - 1 -> RawValues]
    /\ rng \in 0 .. Period - 1
    /\ \E s \in PolicyValues, S \in PolicyValues :
          run = [c \in Calls |-> NewRun("ready", s, S)]

\* call B is made when call A has returned
Turn(c) == c = "A" \/ run["A"].pc = "done"

NextSeq == \E c \in Calls : Turn(c) /\ Step(c)

SpecSeq == InitSeq /\ [][NextSeq]_vars

(***************************************************************************)
(* SpecConc: two calls with the same ordinary policy (0 <= s < S) running  *)
(* in two threads of the same process, as when a caller sweeps the policy  *)
(* space in parallel.  The schedules explored are those with one           *)
(* preemption:                                                             *)
(* thread B is scheduled at any point of thread A's call (before it,       *)
(* between any two of its steps, or after it) and then runs to its return. *)
(***************************************************************************)
InitConc ==
    /\ AppIdle
    /\ stream \in [0 .. Period - 1 -> RawValues]
    /\ rng \in 0 .. Period - 1
    /\ \E s \in PolicyValues, S \in PolicyValues :
          /\ 0 <= s /\ s < S
          /\ run = [c \in Calls |-> NewRun("ready", s, S)]

Running(c) == run[c].pc \notin {"off", "ready", "done", "error"}

Scheduled(c) == c = "B" \/ ~Running("B")

NextConc == \E c \in Calls : Scheduled(c) /\ Step(c)

SpecConc == InitConc /\ [][NextConc]_vars

(***************************************************************************)
(* FairSpec: a call that has started keeps running (the day loop never     *)
(* blocks: every `yield` is a timeout the environment fires).              *)
(***************************************************************************)
FairSpec == Spec /\ WF_vars(Next)

(***************************************************************************)
(* The application state (src/app/state) and the tools that change it      *)
(* (src/app/agents/syncraft_tools.py, src/tools/syncraft/product_setup.py).*)
(*                                                                         *)
(* A file is a text: the sequence of chunks json.dump writes, an opening   *)
(* bracket, one chunk per node, link or product, a closing bracket.  `fs`  *)
(* maps the names of the files that exist to their texts.                  *)
(***************************************************************************)
\* node ids / station names, layout positions (x, y), product route labels,
\* colours and routes the tools are called with
Labels == {"a", "b"}
Coords == {<<0, 0>>, <<1, 1>>}
ProductLabels == {"p", "q"}
Colors == {"red", "blue"}
Routes == {<< >>, <<"a">>, <<"a", "b">>, <<"b", "b">>}

GRAPH_PATH == "graph.json"
PRODUCTS_PATH == "products.json"
\* the names tempfile can give a new temporary file in the state directory
TmpNames == {"tmp1.tmp", "tmp2.tmp"}

ObjectOpen == [t |-> "{"]
ObjectClose == [t |-> "}"]
ArrayOpen == [t |-> "["]
ArrayClose == [t |-> "]"]
Brackets == {ObjectOpen, ObjectClose, ArrayOpen, ArrayClose}

\* json.dump: a dict or a list as text
json_dump(data) ==
    IF data.kind = "dict"
    THEN <<ObjectOpen>> \o data.items \o <<ObjectClose>>
    ELSE <<ArrayOpen>> \o data.items \o <<ArrayClose>>

\* json.load: the value a text stands for, or JSONDecodeError
JSONDecodeError == [kind |-> "JSONDecodeError"]

json_load(text) ==
    IF /\ Len(text) >= 2
       /\ \/ text[1] = ObjectOpen /\ text[Len(text)] = ObjectClose
          \/ text[1] = ArrayOpen /\ text[Len(text)] = ArrayClose
       /\ \A i \in 2 .. Len(text) - 1 : text[i] \notin Brackets
    THEN [kind |-> IF text[1] = ObjectOpen THEN "dict" ELSE "list",
          items |-> SubSeq(text, 2, Len(text) - 1)]
    ELSE JSONDecodeError

(***************************************************************************)
(* networkx.DiGraph: nodes in insertion order with their `pos` attribute   *)
(* (the attributes `label` and `color` of a node are functions of its id   *)
(* and left out), links in insertion order.                                *)
(***************************************************************************)
DiGraph == [nodes |-> << >>, links |-> << >>]
\* a node that has no `pos` attribute
NoPos == << >>

NodeIds(g) == {g.nodes[i].id : i \in DOMAIN g.nodes}
EdgeSet(g) == {g.links[i] : i \in DOMAIN g.links}
has_node(g, n) == n \in NodeIds(g)
has_edge(g, u, v) == [source |-> u, target |-> v] \in EdgeSet(g)

\* Graph.add_node(n, pos=pos): a new node, or new attributes of an old one
graph_add_node(g, n, pos) ==
    IF has_node(g, n)
    THEN [g EXCEPT !.nodes = [i \in DOMAIN g.nodes |->
                                 IF g.nodes[i].id = n
                                 THEN [id |-> n, pos |-> pos]
                                 ELSE g.nodes[i]]]
    ELSE [g EXCEPT !.nodes = Append(@, [id |-> n, pos |-> pos])]

\* Graph.remove_node(n): the node and every edge it is an end of
graph_remove_node_keepsEdges(g, n) ==
    [nodes |-> SelectSeq(g.nodes, LAMBDA v : v.id # n), links |-> g.links]
graph_remove_node(g, n) ==
    [nodes |-> SelectSeq(g.nodes, LAMBDA v : v.id # n),
     links |-> SelectSeq(g.links, LAMBDA e : e.source # n /\ e.target # n)]

\* Graph.add_edge(u, v): adds the end points that are not nodes yet
graph_add_edge(g, u, v) ==
    LET g1 == IF has_node(g, u) THEN g ELSE graph_add_node(g, u, NoPos)
        g2 == IF has_node(g1, v) THEN g1 ELSE graph_add_node(g1, v, NoPos)
    IN  IF has_edge(g2, u, v)
        THEN g2
        ELSE [g2 EXCEPT !.links = Append(@, [source |-> u, target |-> v])]

graph_remove_edge(g, u, v) ==
    [g EXCEPT !.links = SelectSeq(@, LAMBDA e : e # [source |-> u, target |-> v])]

\* Graph.edges: node by node, each node's out-edges in insertion order
RECURSIVE EdgesFrom(_, _)
EdgesFrom(nodes, links) ==
    IF nodes = << >>
    THEN << >>
    ELSE SelectSeq(links, LAMBDA e : e.source = Head(nodes).id)
            \o EdgesFrom(Tail(nodes), links)

edges(g) == EdgesFrom(g.nodes, g.links)

\* json_graph.node_link_data
node_link_data(g) ==
    [kind |-> "dict",
     items |-> [i \in DOMAIN g.nodes |->
                   [t |-> "node", id |-> g.nodes[i].id, pos |-> g.nodes[i].pos]]
               \o [i \in DOMAIN edges(g) |->
                      [t |-> "link", source |-> edges(g)[i].source,
                       target |-> edges(g)[i].target]]]

\* json_graph.node_link_graph: the nodes, then the links
RECURSIVE AddItems(_, _)
AddItems(g, items) ==
    IF items = << >>
    THEN g
    ELSE LET it == Head(items)
         IN  AddItems(IF it.t = "node"
                      THEN graph_add_node(g, it.id, it.pos)
                      ELSE graph_add_edge(g, it.source, it.target),
                      Tail(items))

node_link_graph(data) ==
    AddItems(AddItems(DiGraph, SelectSeq(data.items, LAMBDA it : it.t = "node")),
             SelectSeq(data.items, LAMBDA it : it.t = "link"))

(***************************************************************************)
(* graph_state.py and product_state.py.                                    *)
(***************************************************************************)
Exists(files, path) == path \in DOMAIN files

\* lines 22-34 of graph_state.py
load_graph(files) ==
    IF ~Exists(files, GRAPH_PATH) \/ Len(files[GRAPH_PATH]) = 0
    THEN DiGraph
    ELSE LET data == json_load(files[GRAPH_PATH])
         IN  IF data.kind = "JSONDecodeError"
             THEN DiGraph
             ELSE node_link_graph(data)

\* lines 42-51 of graph_state.py: the raw entries of graph.json
load_graph_json(files) ==
    IF ~Exists(files, GRAPH_PATH) \/ Len(files[GRAPH_PATH]) = 0
    THEN << >>
    ELSE LET data == json_load(files[GRAPH_PATH])
         IN  IF data.kind = "JSONDecodeError" THEN << >> ELSE data.items

\* the node ids and the links that graph.json lists
StoredNodes(files) ==
    {it.id : it \in {load_graph_json(files)[i] : i \in
                        {k \in DOMAIN load_graph_json(files) :
                            load_graph_json(files)[k].t = "node"}}}

StoredLinks(files) ==
    {[source |-> it.source, target |-> it.target] :
        it \in {load_graph_json(files)[i] : i \in
                   {k \in DOMAIN load_graph_json(files) :
                       load_graph_json(files)[k].t = "link"}}}

\* lines 24-37 of product_state.py: the list of product dicts
load_products(files) ==
    IF ~Exists(files, PRODUCTS_PATH) \/ Len(files[PRODUCTS_PATH]) = 0
    THEN << >>
    ELSE LET data == json_load(files[PRODUCTS_PATH])
         IN  IF data.kind = "JSONDecodeError"
             THEN << >>
             ELSE IF data.kind # "list"
             THEN << >>
             ELSE [i \in DOMAIN data.items |->
                      [label |-> data.items[i].label,
                       route |-> data.items[i].route,
                       color |-> data.items[i].color]]

\* the list of product dicts as json.dump gets it
ProductData(products) ==
    [kind |-> "list",
     items |-> [i \in DOMAIN products |->
                   [t |-> "product", label |-> products[i].label,
                    route |-> products[i].route, color |-> products[i].color]]]

\* tempfile.NamedTemporaryFile(dir=..., delete=False): the names a new
\* temporary file can get are those of no existing file (O_EXCL)
NamedTemporaryFile_fixedName(files) == {n \in TmpNames : n = "tmp1.tmp"}
NamedTemporaryFile(files) == {n \in TmpNames : ~Exists(files, n)}

\* writing text to the end of a file
Write(files, path, text) ==
    (path :> (IF Exists(files, path) THEN files[path] ELSE << >>) \o text) @@ files

\* Path.replace: rename src over dst
Replace(files, src, dst) ==
    [p \in (DOMAIN files \ {src}) \cup {dst} |->
        IF p = dst THEN files[src] ELSE files[p]]

\* save_graph / save_products run without interruption
Save(files, path, data) ==
    LET tmp_name == CHOOSE n \in NamedTemporaryFile(files) : TRUE
    IN  Replace(Write(files, tmp_name, json_dump(data)), tmp_name, path)

save_graph(files, graph) == Save(files, GRAPH_PATH, node_link_data(graph))
save_products(files, products) == Save(files, PRODUCTS_PATH, ProductData(products))

(***************************************************************************)
(* The tools.  A tool call run from start to end is a function of the      *)
(* files: it gives the files it leaves and the value it returns (None, or  *)
(* <<d>> for a dict d).                                                    *)
(***************************************************************************)
\* syncraft_tools.py, lines 36-47
add_node(files, label, pos) ==
    LET graph == graph_add_node(load_graph(files), label, pos)
        saved == save_graph(files, graph)
    IN  [files |-> saved,
         value |-> <<[ok |-> TRUE, exists |-> has_node(load_graph(saved), label)]>>]

\* lines 59-62
remove_node(files, label) ==
    LET graph == load_graph(files)
    IN  [files |-> IF has_node(graph, label)
                   THEN save_graph(files, graph_remove_node(graph, label))
                   ELSE files,
         value |-> None]

\* lines 76-82
move_node(files, label, pos_new) ==
    LET graph == load_graph(files)
        moved == IF has_node(graph, label)
                 THEN graph_add_node(graph, label, pos_new)
                 ELSE graph
    IN  [files |-> save_graph(files, moved), value |-> None]

\* lines 96-111
add_edge_noDestinationCheck(files, src, dst) ==
    LET graph == load_graph(files)
    IN  IF ~has_node(graph, src)
        THEN [files |-> files,
              value |-> <<[ok |-> FALSE, error |-> "source_missing", source |-> src]>>]
        ELSE LET added == graph_add_edge(graph, src, dst)
             IN  [files |-> save_graph(files, added),
                  value |-> <<[ok |-> TRUE, edge_exists |-> has_edge(added, src, dst)]>>]
add_edge(files, src, dst) ==
    LET graph == load_graph(files)
    IN  IF ~has_node(graph, src)
        THEN [files |-> files,
              value |-> <<[ok |-> FALSE, error |-> "source_missing", source |-> src]>>]
        ELSE IF ~has_node(graph, dst)
        THEN [files |-> files,
              value |-> <<[ok |-> FALSE, error |-> "destination_missing",
                           destination |-> dst]>>]
        ELSE LET added == graph_add_edge(graph, src, dst)
             IN  [files |-> save_graph(files, added),
                  value |-> <<[ok |-> TRUE, edge_exists |-> has_edge(added, src, dst)]>>]

\* lines 125-128
remove_edge(files, src, dst) ==
    LET graph == load_graph(files)
    IN  [files |-> IF has_edge(graph, src, dst)
                   THEN save_graph(files, graph_remove_edge(graph, src, dst))
                   ELSE files,
         value |-> None]

\* lines 148-149
reset_graph(files) == [files |-> save_graph(files, DiGraph), value |-> None]

\* the least index of a non-empty set of indices
First(indices) == CHOOSE i \in indices : \A k \in indices : i <= k

\* product_setup.py, lines 45-76; sorted(list(graph.nodes)) is given as the
\* set of node ids
add_product_route_alwaysAppends(files, label, route, color) ==
    LET graph == load_graph(files)
        missing_nodes == SelectSeq(route, LAMBDA station : ~has_node(graph, station))
        products == load_products(files)
        updated == Append(products,
                          [label |-> label, route |-> route, color |-> color])
    IN  IF missing_nodes # << >>
        THEN [files |-> files,
              value |-> <<[success |-> FALSE,
                           error |-> "Some stations in the product route do not exist in the simulation graph.",
                           missing_nodes |-> missing_nodes,
                           available_nodes |-> NodeIds(graph)]>>]
        ELSE [files |-> save_products(files, updated),
              value |-> <<[success |-> TRUE]>>]
add_product_route_keepsColor(files, label, route, color) ==
    LET graph == load_graph(files)
        missing_nodes == SelectSeq(route, LAMBDA station : ~has_node(graph, station))
        products == load_products(files)
        same == {i \in DOMAIN products : products[i].label = label}
        updated == IF same # {}
                   THEN [products EXCEPT ![First(same)].route = route]
                   ELSE Append(products,
                               [label |-> label, route |-> route, color |-> color])
    IN  IF missing_nodes # << >>
        THEN [files |-> files,
              value |-> <<[success |-> FALSE,
                           error |-> "Some stations in the product route do not exist in the simulation graph.",
                           missing_nodes |-> missing_nodes,
                           available_nodes |-> NodeIds(graph)]>>]
        ELSE [files |-> save_products(files, updated),
              value |-> <<[success |-> TRUE]>>]
add_product_route(files, label, route, color) ==
    LET graph == load_graph(files)
        missing_nodes == SelectSeq(route, LAMBDA station : ~has_node(graph, station))
        products == load_products(files)
        same == {i \in DOMAIN products : products[i].label = label}
        updated == IF same # {}
                   THEN [products EXCEPT ![First(same)].route = route,
                                         ![First(same)].color = color]
                   ELSE Append(products,
                               [label |-> label, route |-> route, color |-> color])
    IN  IF missing_nodes # << >>
        THEN [files |-> files,
              value |-> <<[success |-> FALSE,
                           error |-> "Some stations in the product route do not exist in the simulation graph.",
                           missing_nodes |-> missing_nodes,
                           available_nodes |-> NodeIds(graph)]>>]
        ELSE [files |-> save_products(files, updated),
              value |-> <<[success |-> TRUE]>>]

\* lines 85-87
remove_product_route(files, label) ==
    LET products == load_products(files)
    IN  [files |-> save_products(files, SelectSeq(products, LAMBDA q : q.label # label)),
         value |-> None]

\* line 105
reset_product_routes(files) ==
    [files |-> save_products(files, << >>), value |-> None]

(***************************************************************************)
(* Actions: one per tool call, made by the agent one at a time.            *)
(***************************************************************************)
\* the process runs no simulation
SimIdle ==
    /\ stream = [i \in 0 .. Period - 1 |-> 0]
    /\ rng = 0
    /\ run = [c \in Calls |-> NewRun("off", 0, 0)]

ToolCall(op, args, out) ==
    /\ fs' = out.files
    /\ last' = [op |-> op, args |-> args, value |-> out.value]
    /\ UNCHANGED task
    /\ UNCHANGED simVars

AddNode(label, pos) ==
    ToolCall("add_node", [label |-> label, pos |-> pos], add_node(fs, label, pos))

RemoveNode(label) ==
    ToolCall("remove_node", [label |-> label], remove_node(fs, label))

MoveNode(label, pos) ==
    ToolCall("move_node", [label |-> label, pos |-> pos], move_node(fs, label, pos))

AddEdge(src, dst) ==
    ToolCall("add_edge", [src |-> src, dst |-> dst], add_edge(fs, src, dst))

RemoveEdge(src, dst) ==
    ToolCall("remove_edge", [src |-> src, dst |-> dst], remove_edge(fs, src, dst))

ResetGraph == ToolCall("reset_graph", [none |-> TRUE], reset_graph(fs))

AddProductRoute(label, route, color) ==
    ToolCall("add_product_route", [label |-> label, route |-> route, color |-> color],
             add_product_route(fs, label, route, color))

RemoveProductRoute(label) ==
    ToolCall("remove_product_route", [label |-> label], remove_product_route(fs, label))

ResetProductRoutes ==
    ToolCall("reset_product_routes", [none |-> TRUE], reset_product_routes(fs))

\* what a state file can hold before the first tool call: nothing (no file),
\* an empty text, or a text that is not JSON
InitialTexts == {<< >>, <<ObjectOpen>>}

InitialFiles(path) == {NoFiles} \cup {path :> text : text \in InitialTexts}

(***************************************************************************)
(* SpecGraph: any sequence of calls of the graph tools.                    *)
(***************************************************************************)
InitGraph ==
    /\ SimIdle
    /\ fs \in InitialFiles(GRAPH_PATH)
    /\ last = NoCall
    /\ task = NoTasks

NextGraph ==
    \/ \E label \in Labels, pos \in Coords : AddNode(label, pos)
    \/ \E label \in Labels : RemoveNode(label)
    \/ \E label \in Labels, pos \in Coords : MoveNode(label, pos)
    \/ \E src \in Labels, dst \in Labels : AddEdge(src, dst)
    \/ \E src \in Labels, dst \in Labels : RemoveEdge(src, dst)
    \/ ResetGraph

SpecGraph == InitGraph /\ [][NextGraph]_vars

(***************************************************************************)
(* SpecRoutes: any sequence of calls of the product route tools and of     *)
(* the graph tools that change the set of stations (every node at the      *)
(* same position).                                                         *)
(***************************************************************************)
Origin == CHOOSE pos \in Coords : pos[1] = 0

InitRoutes ==
    /\ SimIdle
    /\ \E g \in InitialFiles(GRAPH_PATH), q \in InitialFiles(PRODUCTS_PATH) :
          fs = g @@ q
    /\ last = NoCall
    /\ task = NoTasks

NextRoutes ==
    \/ \E label \in Labels : AddNode(label, Origin)
    \/ \E label \in Labels : RemoveNode(label)
    \/ ResetGraph
    \/ \E label \in ProductLabels, route \in Routes, color \in Colors :
          AddProductRoute(label, route, color)
    \/ \E label \in ProductLabels : RemoveProductRoute(label)
    \/ ResetProductRoutes

SpecRoutes == InitRoutes /\ [][NextRoutes]_vars

(***************************************************************************)
(* SpecFiles: save_graph / save_products and load_graph / load_products    *)
(* running at the same time, as when several tool invocations and the UI   *)
(* work on the state directory.  Two saves and one load, each on either    *)
(* state file, interleaved step by step: a save creates its temporary      *)
(* file, writes its text chunk by chunk and renames the file; a load       *)
(* tests the file's existence, its size, and reads it.                     *)
(***************************************************************************)
Tasks == {"save1", "save2", "load"}
Savers == {"save1", "save2"}
StatePaths == {GRAPH_PATH, PRODUCTS_PATH}

\* what the saves write: a graph of one node or of two nodes and an edge,
\* a list of one product
SampleGraphs ==
    {graph_add_node(DiGraph, "a", Origin),
     graph_add_edge(graph_add_node(graph_add_node(DiGraph, "a", Origin), "b", Origin),
                    "a", "b")}

SampleProducts == {<<[label |-> "p", route |-> <<"a">>, color |-> "red"]>>}

SavedData(path) ==
    IF path = GRAPH_PATH
    THEN {node_link_data(g) : g \in SampleGraphs}
    ELSE {ProductData(q) : q \in SampleProducts}

\* before the operations a state file does not exist or holds what
\* reset_graph / reset_product_routes left
PreviousFiles ==
    {g @@ q : g \in {NoFiles, reset_graph(NoFiles).files},
              q \in {NoFiles, reset_product_routes(NoFiles).files}}

\* the text of a file as an optional value
TextOf(files, path) == IF Exists(files, path) THEN <<files[path]>> ELSE None

\* ghost `old`: the text of the task's file before the operations
NewTask(kind, path, data, files) ==
    [kind |-> kind, path |-> path, data |-> data,
     pc |-> IF kind = "save" THEN "create" ELSE "exists",
     tmp_name |-> None, pos |-> 0, seen |-> None,
     old |-> TextOf(files, path)]

NoData == [kind |-> "none"]

InitFiles ==
    /\ SimIdle
    /\ last = NoCall
    /\ fs \in PreviousFiles
    /\ \E p1 \in StatePaths, p2 \in StatePaths, p3 \in StatePaths :
          \E d1 \in SavedData(p1), d2 \in SavedData(p2) :
             task = [k \in Tasks |->
                        IF k = "save1" THEN NewTask("save", p1, d1, fs)
                        ELSE IF k = "save2" THEN NewTask("save", p2, d2, fs)
                        ELSE NewTask("load", p3, NoData, fs)]

FileStep(k, files, next) ==
    /\ fs' = files
    /\ task' = [task EXCEPT ![k] = next]
    /\ UNCHANGED last
    /\ UNCHANGED simVars

\* graph_state.py lines 67-73 / product_state.py lines 50-56: the `with`
\* statement creates the temporary file, empty, under a name of its own
CreateTemp(k) ==
    /\ task[k].pc = "create"
    /\ \E name \in NamedTemporaryFile(fs) :
          FileStep(k, (name :> << >>) @@ fs,
                   [task[k] EXCEPT !.tmp_name = <<name>>, !.pc = "dump"])

\* line 74 / line 57: json.dump writes the next chunk of the text
DumpChunk(k) ==
    /\ task[k].pc = "dump"
    /\ task[k].pos < Len(json_dump(task[k].data))
    /\ FileStep(k, Write(fs, task[k].tmp_name[1],
                         <<json_dump(task[k].data)[task[k].pos + 1]>>),
                [task[k] EXCEPT !.pos = @ + 1])

\* line 78 / line 60: the file is closed and renamed over the state file
\* (FileNotFoundError if it is not there any more)
ReplaceTemp(k) ==
    /\ task[k].pc = "dump"
    /\ task[k].pos = Len(json_dump(task[k].data))
    /\ IF Exists(fs, task[k].tmp_name[1])
       THEN FileStep(k, Replace(fs, task[k].tmp_name[1], task[k].path),
                     [task[k] EXCEPT !.pc = "done"])
       ELSE FileStep(k, fs, [task[k] EXCEPT !.pc = "error"])

\* load_graph line 22 / load_products line 24: `not PATH.exists()`
CheckExists(k) ==
    /\ task[k].pc = "exists"
    /\ FileStep(k, fs, [task[k] EXCEPT !.pc = IF Exists(fs, task[k].path)
                                                THEN "stat" ELSE "done"])

\* `PATH.stat().st_size == 0`
StatSize(k) ==
    /\ task[k].pc = "stat"
    /\ FileStep(k, fs,
                IF Len(fs[task[k].path]) = 0
                THEN [task[k] EXCEPT !.seen = <<fs[task[k].path]>>, !.pc = "done"]
                ELSE [task[k] EXCEPT !.pc = "read"])

\* lines 26-27 / 28-29: the file is opened and read to its end
ReadText(k) ==
    /\ task[k].pc = "read"
    /\ FileStep(k, fs, [task[k] EXCEPT !.seen = <<fs[task[k].path]>>, !.pc = "done"])

NextFiles ==
    \E k \in Tasks :
        \/ CreateTemp(k)
        \/ DumpChunk(k)
        \/ ReplaceTemp(k)
        \/ CheckExists(k)
        \/ StatSize(k)
        \/ ReadText(k)

SpecFiles == InitFiles /\ [][NextFiles]_vars

(***************************************************************************)
(* SpecInvoke: two add_node invocations for different labels running at    *)
(* the same time (two agent tool calls, or a tool call and the UI), each   *)
(* as the handler runs it: load_graph, graph.add_node, save_graph, and     *)
(* load_graph again for the returned value.  The loads and the save take   *)
(* the steps of SpecFiles; `phase` says which call of the handler a task   *)
(* is in.                                                                  *)
(***************************************************************************)
Invocations == {"call1", "call2"}

\* the graph load_graph returns for the text it has read (None: no file)
LoadedGraph(seen) ==
    load_graph(IF seen = None THEN NoFiles ELSE GRAPH_PATH :> seen[1])

NewInvocation(label, pos, files) ==
    NewTask("load", GRAPH_PATH, NoData, files)
       @@ [op |-> "add_node", args |-> [label |-> label, pos |-> pos],
           phase |-> "load", value |-> None]

InitInvoke ==
    /\ SimIdle
    /\ last = NoCall
    /\ fs \in {NoFiles, reset_graph(NoFiles).files}
    /\ \E l1 \in Labels, l2 \in Labels, pos \in Coords :
          /\ l1 # l2
          /\ task = [k \in Invocations |->
                        IF k = "call1" THEN NewInvocation(l1, pos, fs)
                        ELSE NewInvocation(l2, pos, fs)]

\* syncraft_tools.py lines 36-46: load_graph has returned; graph.add_node,
\* and save_graph computes the data to write
Modify(k) ==
    /\ task[k].pc = "done"
    /\ task[k].phase = "load"
    /\ FileStep(k, fs,
                [task[k] EXCEPT
                    !.data = node_link_data(
                                graph_add_node(LoadedGraph(task[k].seen),
                                               task[k].args.label,
                                               task[k].args.pos)),
                    !.phase = "save",
                    !.pc = "create"])

\* line 47: save_graph has returned; load_graph() is called again
Reload(k) ==
    /\ task[k].pc = "done"
    /\ task[k].phase = "save"
    /\ FileStep(k, fs, [task[k] EXCEPT !.seen = None, !.phase = "check",
                                       !.pc = "exists"])

\* line 47: the handler returns
ReturnValue(k) ==
    /\ task[k].pc = "done"
    /\ task[k].phase = "check"
    /\ FileStep(k, fs,
                [task[k] EXCEPT
                    !.value = <<[ok |-> TRUE,
                                 exists |-> has_node(LoadedGraph(task[k].seen),
                                                     task[k].args.label)]>>,
                    !.phase = "returned",
                    !.pc = "returned"])

NextInvoke ==
    \E k \in Invocations :
        \/ CheckExists(k)
        \/ StatSize(k)
        \/ ReadText(k)
        \/ Modify(k)
        \/ CreateTemp(k)
        \/ DumpChunk(k)
        \/ ReplaceTemp(k)
        \/ Reload(k)
        \/ ReturnValue(k)

SpecInvoke == InitInvoke /\ [][NextInvoke]_vars





(***************************************************************************)
(* A call executed alone, as a function of its arguments: the steps above  *)
(* applied in program order to a generator nobody else touches.            *)
(***************************************************************************)
Exec(r, g) ==
    CASE r.pc = "ready"   -> [r |-> Start(r), g |-> SeedRng(g, seed)]
      [] r.pc = "arrival" -> [r |-> ArrivalStep(r), g |-> g]
      [] r.pc = "draw"    ->
            IF r.trial < demand_mean * 2
            THEN [r |-> TrialStep(r, stream[g]), g |-> Advance(g)]
            ELSE [r |-> DemandStep(r), g |-> g]
      [] r.pc = "holding" -> [r |-> HoldingStep(r), g |-> g]
      [] r.pc = "reorder" ->
            [r |-> ReorderStep(r, stream[g]),
             g |-> IF Reorders(r) THEN Advance(g) ELSE g]
      [] r.pc = "advance" -> [r |-> AdvanceStep(r), g |-> g]
      [] r.pc = "return"  -> [r |-> ReturnStep(r), g |-> g]
      [] OTHER            -> [r |-> r, g |-> g]

RECURSIVE RunFrom(_, _)
RunFrom(r, g) ==
    IF r.pc \in {"done", "error"} THEN r.result
    ELSE LET n == Exec(r, g) IN RunFrom(n.r, n.g)

RunAlone(s, S) == RunFrom(NewRun("ready", s, S), 0)

Started(c) == run[c].pc \notin {"off", "ready"}
Done(c) == run[c].pc = "done"
Outstanding(orders) == {i \in DOMAIN orders : orders[i].arrived = NotArrived}

(***************************************************************************)
(* C1: an order placed on day d with sampled lead time L is added to the   *)
(* on-hand level at the arrival check of the first simulated day that is   *)
(* >= d + L and on no earlier day.                                         *)
(***************************************************************************)
C1_ArrivalOnSchedule ==
    \A c \in Calls : \A i \in DOMAIN run[c].orders :
        LET o == run[c].orders[i]
            due == o.placed + o.lead
        IN  /\ o.arrived # NotArrived => o.arrived >= due
            /\ (run[c].day > due \/ (run[c].day = due /\ run[c].pc # "arrival"))
                  => o.arrived = due

(***************************************************************************)
(* C2: single pipeline.  At most one order is outstanding in every         *)
(* reachable state, and an order is placed only on a day on which every    *)
(* earlier order has already arrived.                                      *)
(***************************************************************************)
C2_SinglePipeline ==
    \A c \in Calls :
        /\ Cardinality(Outstanding(run[c].orders)) <= 1
        /\ \A i \in DOMAIN run[c].orders : i < Len(run[c].orders) =>
              /\ run[c].orders[i].arrived # NotArrived
              /\ run[c].orders[i].arrived <= run[c].orders[i + 1].placed

\* a second order has been placed after the first arrived, the level being
\* at or below s, and it is the only one outstanding
C2_Witness ==
    /\ Len(run["A"].orders) >= 2
    /\ Outstanding(run["A"].orders) = {Len(run["A"].orders)}
    /\ run["A"].level <= run["A"].s
    /\ run["A"].pc = "advance"

(***************************************************************************)
(* C3: determinism.  Two calls with the same (s, S), made one after the    *)
(* other from any prior state of the generator, return identical values    *)
(* for all five result fields.                                             *)
(***************************************************************************)
C3_Determinism ==
    (Done("A") /\ Done("B") /\ run["A"].s = run["B"].s /\ run["A"].S = run["B"].S)
        => run["A"].result = run["B"].result

\* both calls have returned, after a run with an order and a stockout
C3_Witness ==
    /\ Done("A") /\ Done("B")
    /\ run["A"].s = run["B"].s /\ run["A"].S = run["B"].S
    /\ run["B"].cost.ordering > 0
    /\ run["B"].cost.stockout > 0
    /\ run["B"].cost.holding > 0

(***************************************************************************)
(* C4: concurrent-run isolation.  A call whose steps are interleaved with  *)
(* those of another call returns exactly the result it returns when it is  *)
(* run alone.                                                              *)
(***************************************************************************)
C4_Isolation ==
    \A c \in Calls :
        Done(c) => run[c].result = RunAlone(run[c].s, run[c].S)

(***************************************************************************)
(* C5: cost decomposition.  The returned total_cost is the sum of the      *)
(* three returned components, and each component is the accumulator's      *)
(* value after the last simulated day.                                     *)
(***************************************************************************)
C5_CostDecomposition ==
    \A c \in Calls : Done(c) =>
        LET res == run[c].result[1]
        IN  /\ res.total_cost
                 = res.holding_cost + res.ordering_cost + res.stockout_cost
            /\ res.holding_cost = run[c].cost.holding
            /\ res.ordering_cost = run[c].cost.ordering
            /\ res.stockout_cost = run[c].cost.stockout

\* a result in which all three components are positive
C5_Witness ==
    /\ Done("A")
    /\ run["A"].result[1].holding_cost > 0
    /\ run["A"].result[1].ordering_cost > 0
    /\ run["A"].result[1].stockout_cost > 0

(***************************************************************************)
(* C6: non-negativity of the result.  For every integer (s, S), negative   *)
(* S and s >= S included, the returned holding_cost, ordering_cost,        *)
(* stockout_cost and ending_inventory are >= 0.                            *)
(***************************************************************************)
C6_ResultNonNegative ==
    \A c \in Calls : Done(c) =>
        LET res == run[c].result[1]
        IN  /\ res.holding_cost >= 0
            /\ res.ordering_cost >= 0
            /\ res.stockout_cost >= 0
            /\ res.ending_inventory >= 0

\* a result of a run with negative S and s >= S in which a negative order
\* has arrived
C6_Witness ==
    /\ Done("A")
    /\ run["A"].S < 0
    /\ run["A"].s >= run["A"].S
    /\ \E i \in DOMAIN run["A"].orders :
          /\ run["A"].orders[i].qty < 0
          /\ run["A"].orders[i].arrived # NotArrived

(***************************************************************************)
(* C7: the on-hand level is >= 0 in every reachable state of a run, for    *)
(* every integer (s, S).                                                   *)
(***************************************************************************)
C7_LevelNonNegative ==
    \A c \in Calls : Started(c) => run[c].level >= 0

(***************************************************************************)
(* C8: every order placed has a quantity >= 0, for every integer (s, S).   *)
(***************************************************************************)
C8_OrderQuantityNonNegative ==
    \A c \in Calls : \A i \in DOMAIN run[c].orders :
        run[c].orders[i].qty >= 0

(***************************************************************************)
(* C9: for every integer (s, S) a run executes exactly `days` iterations,  *)
(* day = 0 .. days - 1, each with exactly one demand draw, then terminates *)
(* and returns a result with all five fields; no error state is reachable. *)
(***************************************************************************)
ResultFields ==
    {"total_cost", "holding_cost", "ordering_cost", "stockout_cost",
     "ending_inventory"}

C9_Safe ==
    /\ run["A"].pc # "error"
    /\ run["A"].day <= days
    /\ run["A"].pc \in {"draw", "holding", "reorder", "advance"}
          => /\ run["A"].day < days
             /\ run["A"].iterations = run["A"].day + 1
    /\ run["A"].pc \in {"holding", "reorder", "advance"}
          => run["A"].demandCalls = run["A"].day + 1
    /\ Done("A") =>
          /\ run["A"].iterations = days
          /\ run["A"].demandCalls = days
          /\ run["A"].day = days
          /\ run["A"].result # None
          /\ DOMAIN run["A"].result[1] = ResultFields

C9_RunsToCompletion == [] C9_Safe /\ <> Done("A")

\* a completed run of a degenerate policy: negative s and s >= S
C9_Witness ==
    /\ Done("A")
    /\ run["A"].s < 0
    /\ run["A"].s >= run["A"].S
    /\ run["A"].iterations = days

(***************************************************************************)
(* C10: monotonic accumulation.  No step of a run decreases the holding,   *)
(* the ordering or the stockout total, so each total after a day is >=     *)
(* its value after the previous day.                                       *)
(***************************************************************************)
C10_MonotonicAccumulation ==
    [][\A c \in Calls :
          /\ run'[c].cost.holding >= run[c].cost.holding
          /\ run'[c].cost.ordering >= run[c].cost.ordering
          /\ run'[c].cost.stockout >= run[c].cost.stockout]_vars

\* all three totals have grown, on a day after the first
C10_Witness ==
    /\ run["A"].day >= 1
    /\ run["A"].pc = "advance"
    /\ run["A"].cost.holding > 0
    /\ run["A"].cost.ordering > order_cost
    /\ run["A"].cost.stockout > 0

Max(a, b) == IF a >= b THEN a ELSE b
LastOrder(r) == r.orders[Len(r.orders)]
\* an order has been placed by today's reorder decision
PlacedToday(r) == r.orders # << >> /\ LastOrder(r).placed = r.day
\* a step of call c from program point `from` to program point `to`
Moves(c, from, to) == run[c].pc = from /\ run'[c].pc = to

(***************************************************************************)
(* C11: boundary S <= s.  The run does not error, the reorder threshold    *)
(* condition on_hand_level <= s holds on every simulated day (after the    *)
(* day's demand), and every order placed has quantity                      *)
(* max(S - on_hand_level, 0).                                              *)
(***************************************************************************)
C11_DegeneratePolicy ==
    \A c \in Calls : (Started(c) /\ run[c].S <= run[c].s) =>
        /\ run[c].pc # "error"
        /\ run[c].pc \in {"reorder", "advance"} => run[c].level <= run[c].s
        /\ (run[c].pc = "advance" /\ PlacedToday(run[c])) =>
              LastOrder(run[c]).qty = Max(run[c].S - run[c].level, 0)

(***************************************************************************)
(* C12: scenario B.  With s = S = 0 the engine reorders on every day on    *)
(* which the level is <= 0, one ordering fee per such day, and the         *)
(* stockout total grows by demand x stockout_cost on every day whose       *)
(* demand is > 0 while no stock is on hand.                                *)
(***************************************************************************)
C12_ScenarioB ==
    [][\A c \in Calls : (run[c].s = 0 /\ run[c].S = 0) =>
          /\ (Moves(c, "reorder", "advance") /\ run[c].level <= 0) =>
                /\ run'[c].cost.ordering = run[c].cost.ordering + order_cost
                /\ Len(run'[c].orders) = Len(run[c].orders) + 1
                /\ LastOrder(run'[c]).placed = run[c].day
          /\ (Moves(c, "draw", "holding") /\ run[c].level = 0) =>
                run'[c].cost.stockout
                   = run[c].cost.stockout + run'[c].demand * stockout_cost]_vars

\* s = S = 0: the second day's order has been placed and a positive demand
\* has been charged on an empty stock
C12_Witness ==
    /\ run["A"].s = 0 /\ run["A"].S = 0
    /\ run["A"].pc = "advance" /\ run["A"].day = 1
    /\ run["A"].demand > 0
    /\ run["A"].cost.stockout > 0
    /\ run["A"].cost.ordering = 2 * order_cost

(***************************************************************************)
(* C13: a one-day horizon.  When the first day is over (which is where a   *)
(* run with horizon 1 leaves the loop and builds its result) exactly one   *)
(* iteration and one demand draw d have happened, no order has been added  *)
(* to the level, ending_inventory would be max(S - d, 0) for S >= 0 and    *)
(* ordering_cost one fee if that level is <= s, else 0.  In general no     *)
(* order is added to the level on the day it is placed.                    *)
(***************************************************************************)
FirstDayOver(r) == r.day = 1 /\ r.pc \in {"arrival", "return"}

C13_OneDayHorizon ==
    \A c \in Calls :
        /\ FirstDayOver(run[c]) =>
              /\ run[c].iterations = 1
              /\ run[c].demandCalls = 1
              /\ \A i \in DOMAIN run[c].orders :
                    run[c].orders[i].arrived = NotArrived
              /\ run[c].S >= 0 =>
                    Result(run[c]).ending_inventory
                       = Max(run[c].S - run[c].demand, 0)
              /\ Result(run[c]).ordering_cost
                    = IF run[c].level <= run[c].s THEN order_cost ELSE 0
        /\ \A i \in DOMAIN run[c].orders :
              run[c].orders[i].arrived # NotArrived
                 => run[c].orders[i].arrived > run[c].orders[i].placed

\* the first day is over with an order placed on it and still outstanding
C13_Witness ==
    /\ FirstDayOver(run["A"])
    /\ run["A"].S >= 0
    /\ run["A"].demand > 0
    /\ Len(run["A"].orders) = 1
    /\ run["A"].on_order > 0

(***************************************************************************)
(* C14: add_edge(src, dst) adds the edge only when both src and dst are    *)
(* nodes of the stored graph; when src is missing it returns ok = false    *)
(* with error source_missing, when src exists but dst is missing it        *)
(* returns ok = false with error destination_missing, and in both error    *)
(* cases the stored graph (the file) is unchanged.                         *)
(***************************************************************************)
C14_AddEdgeChecksEndpoints ==
    [][last'.op = "add_edge" =>
          LET src == last'.args.src
              dst == last'.args.dst
              value == last'.value[1]
              before == load_graph(fs)
              after == load_graph(fs')
          IN  /\ ~has_node(before, src) =>
                    /\ value = [ok |-> FALSE, error |-> "source_missing",
                                source |-> src]
                    /\ fs' = fs
              /\ (has_node(before, src) /\ ~has_node(before, dst)) =>
                    /\ value = [ok |-> FALSE, error |-> "destination_missing",
                                destination |-> dst]
                    /\ fs' = fs
              /\ (has_node(before, src) /\ has_node(before, dst)) =>
                    /\ value.ok
                    /\ EdgeSet(after)
                          = EdgeSet(before) \cup {[source |-> src, target |-> dst]}
                    /\ after.nodes = before.nodes
              /\ EdgeSet(after) # EdgeSet(before) =>
                    has_node(before, src) /\ has_node(before, dst)]_vars

\* add_edge has just been refused for its destination, the source being a
\* node of a stored graph that holds an edge already
C14_Witness ==
    /\ last.op = "add_edge"
    /\ ~last.value[1].ok
    /\ last.value[1].error = "destination_missing"
    /\ has_node(load_graph(fs), last.args.src)
    /\ ~has_node(load_graph(fs), last.args.dst)
    /\ EdgeSet(load_graph(fs)) # {}

(***************************************************************************)
(* C15: add_product_route(label, route, color) returns success = false     *)
(* with the list of missing stations and leaves the stored product list    *)
(* unchanged whenever some station of route is not a node of the current   *)
(* graph; otherwise it returns success = true and afterwards the store     *)
(* holds an entry for label with exactly that route and color.             *)
(***************************************************************************)
C15_AddProductRouteValidates ==
    [][last'.op = "add_product_route" =>
          LET args == last'.args
              value == last'.value[1]
              graph == load_graph(fs)
              missing == SelectSeq(args.route, LAMBDA n : n \notin NodeIds(graph))
              stored == load_products(fs')
          IN  IF missing # << >>
              THEN /\ ~value.success
                   /\ value.missing_nodes = missing
                   /\ fs' = fs
              ELSE /\ value.success
                   /\ \E i \in DOMAIN stored :
                         stored[i] = [label |-> args.label, route |-> args.route,
                                      color |-> args.color]]_vars

\* a route over both stations has just been stored for a label, next to
\* another product's entry
C15_Witness ==
    /\ last.op = "add_product_route"
    /\ last.value[1].success
    /\ Len(last.args.route) = 2
    /\ Len(load_products(fs)) = 2
    /\ load_products(fs)[1].label = last.args.label
    /\ load_products(fs)[1].color = last.args.color
    /\ load_products(fs)[2].color # last.args.color

(***************************************************************************)
(* C16: save_graph and save_products are atomic towards readers.  A load   *)
(* running concurrently with one or more saves observes the complete       *)
(* previous content of the file or the complete new content written by a   *)
(* save that has renamed its file, never a partially written one; a state  *)
(* file never holds a partial text; and concurrent saves never write into  *)
(* each other's temporary file: two saves in progress have different       *)
(* temporary files, and each temporary file holds exactly what its own     *)
(* save has written so far.                                                *)
(***************************************************************************)
\* the complete texts a load of task k's file may observe
CompleteTexts(k) ==
    {task[k].old}
       \cup {<<json_dump(task[j].data)>> :
                j \in {i \in Savers : task[i].path = task[k].path
                                         /\ task[i].pc = "done"}}

C16_AtomicSaves ==
    /\ \A k \in DOMAIN task : task[k].kind = "load" =>
          /\ task[k].pc = "done" => task[k].seen \in CompleteTexts(k)
          /\ task[k].seen # None =>
                json_load(task[k].seen[1]).kind # "JSONDecodeError"
    /\ \A path \in StatePaths : Exists(fs, path) =>
          json_load(fs[path]).kind # "JSONDecodeError"
    /\ \A k \in DOMAIN task : task[k].kind = "save" =>
          /\ task[k].pc # "error"
          /\ task[k].pc = "dump" =>
                /\ Exists(fs, task[k].tmp_name[1])
                /\ fs[task[k].tmp_name[1]]
                      = SubSeq(json_dump(task[k].data), 1, task[k].pos)
                /\ \A j \in DOMAIN task :
                      (j # k /\ task[j].kind = "save" /\ task[j].pc = "dump")
                         => task[j].tmp_name # task[k].tmp_name

\* a load has read the complete text of one save of its file while the
\* other save of the same file was part way through writing its own
C16_Witness ==
    /\ task # NoTasks
    /\ task["load"].pc = "done"
    /\ task["load"].seen = <<json_dump(task["save1"].data)>>
    /\ task["load"].seen # task["load"].old
    /\ task["save2"].path = task["load"].path
    /\ task["save2"].data # task["save1"].data
    /\ task["save2"].pc = "dump"
    /\ task["save2"].pos > 0
    /\ task["save2"].pos < Len(json_dump(task["save2"].data))

(***************************************************************************)
(* C17: reorder rule.  At the reorder decision of every day an order is    *)
(* placed if and only if on_hand_level <= s and no order is outstanding;   *)
(* a day with on_hand_level > s places no order and leaves the ordering    *)
(* total and the replenishment tracker unchanged.                          *)
(***************************************************************************)
C17_ReorderRule ==
    [][\A c \in Calls : Moves(c, "reorder", "advance") =>
          /\ (Len(run'[c].orders) = Len(run[c].orders) + 1)
                <=> (run[c].level <= run[c].s
                       /\ Outstanding(run[c].orders) = {})
          /\ Len(run'[c].orders) \in {Len(run[c].orders), Len(run[c].orders) + 1}
          /\ run[c].level > run[c].s =>
                /\ run'[c].orders = run[c].orders
                /\ run'[c].cost.ordering = run[c].cost.ordering
                /\ run'[c].on_order = run[c].on_order
                /\ run'[c].arrival_event = run[c].arrival_event]_vars

\* a day that placed no order because the level was above s, after a day
\* that placed one
C17_Witness ==
    /\ run["A"].pc = "advance"
    /\ run["A"].level > run["A"].s
    /\ Len(run["A"].orders) = 1
    /\ run["A"].day = LastOrder(run["A"]).placed + 1

(***************************************************************************)
(* C18: demand realization.  With demand d and pre-demand level v: if      *)
(* d <= v the level becomes v - d and the stockout total is unchanged; if  *)
(* d > v the level becomes 0 and the stockout total grows by exactly       *)
(* (d - v) x stockout_cost.  No shortage is carried forward.               *)
(***************************************************************************)
C18_DemandRealization ==
    [][\A c \in Calls : Moves(c, "draw", "holding") =>
          LET d == run'[c].demand
              v == run[c].level
          IN  /\ d = run[c].hits
              /\ d <= v =>
                    /\ run'[c].level = v - d
                    /\ run'[c].cost.stockout = run[c].cost.stockout
              /\ d > v =>
                    /\ run'[c].level = 0
                    /\ run'[c].cost.stockout
                          = run[c].cost.stockout + (d - v) * stockout_cost
              /\ run'[c].level >= 0]_vars

\* a shortage has been charged, and a later day's demand was served in full
\* from stock
C18_Witness ==
    /\ run["A"].pc = "holding"
    /\ run["A"].day >= 1
    /\ run["A"].cost.stockout >= stockout_cost
    /\ run["A"].demand > 0
    /\ run["A"].level > 0

(***************************************************************************)
(* C19: on every simulated day the holding total grows exactly once, by    *)
(* (level after that day's arrival and demand, before that day's reorder   *)
(* decision) x holding_cost; no other step changes it.                     *)
(***************************************************************************)
C19_HoldingAccrual ==
    [][\A c \in Calls :
          IF Moves(c, "holding", "reorder")
          THEN /\ run'[c].cost.holding
                     = run[c].cost.holding + run[c].level * holding_cost
               /\ run'[c].level = run[c].level
               /\ run[c].iterations = run[c].day + 1
               /\ run[c].demandCalls = run[c].day + 1
               /\ ~PlacedToday(run[c])
          ELSE run'[c].cost.holding = run[c].cost.holding]_vars

\* a day charged on the stock left after an arrival and a positive demand
C19_Witness ==
    /\ run["A"].pc = "reorder"
    /\ run["A"].orders # << >>
    /\ LastOrder(run["A"]).arrived = run["A"].day
    /\ LastOrder(run["A"]).qty > 0
    /\ run["A"].demand > 0
    /\ run["A"].level > 0
    /\ run["A"].cost.holding > run["A"].level

(***************************************************************************)
(* C20: arrivals are processed strictly before the same day's demand.  The *)
(* arrival check adds the order's full quantity to the level before the    *)
(* day's demand is drawn, the level is not touched while the demand is     *)
(* drawn, and on the day an order arrived the level after demand d is      *)
(* max(level - d, 0) and the shortage charged is max(d - level, 0), for    *)
(* the level that includes the arrived quantity.                           *)
(***************************************************************************)
ArrivedToday(r) == r.orders # << >> /\ LastOrder(r).arrived = r.day

C20_ArrivalBeforeDemand ==
    [][\A c \in Calls :
          /\ (Moves(c, "arrival", "draw") /\ ArrivedToday(run'[c])) =>
                /\ run'[c].level = run[c].level + LastOrder(run[c]).qty
                /\ run[c].demandCalls = run[c].day
          /\ Moves(c, "draw", "draw") => run'[c].level = run[c].level
          /\ (Moves(c, "draw", "holding") /\ ArrivedToday(run[c])) =>
                LET d == run'[c].demand
                    had == run[c].level
                IN  /\ run'[c].level = Max(had - d, 0)
                    /\ run'[c].cost.stockout
                          = run[c].cost.stockout
                               + Max(d - had, 0) * stockout_cost]_vars

\* on the day a positive order arrived, a positive demand was served from it
C20_Witness ==
    /\ run["A"].pc = "holding"
    /\ ArrivedToday(run["A"])
    /\ LastOrder(run["A"]).qty > 0
    /\ run["A"].demand > 0
    /\ run["A"].level = run["A"].S - run["A"].demand

(***************************************************************************)
(* C21: in every reachable state the ordering total equals order_cost x    *)
(* (number of orders placed so far), whatever the quantities ordered.      *)
(***************************************************************************)
C21_OrderingTotal ==
    \A c \in Calls : Started(c) =>
        run[c].cost.ordering = order_cost * Len(run[c].orders)

\* two orders of different quantities have been placed and charged
C21_Witness ==
    /\ Len(run["A"].orders) = 2
    /\ run["A"].orders[1].qty # run["A"].orders[2].qty
    /\ run["A"].orders[2].qty > 1
    /\ run["A"].cost.ordering = 2 * order_cost

(***************************************************************************)
(* C22: the lead time is sampled exactly once for each placed order (the   *)
(* generator gives one value at the reorder decision that places an order) *)
(* and never at a reorder decision that places none, and every sampled     *)
(* lead time lies in lead_time_min .. lead_time_max.                       *)
(***************************************************************************)
C22_LeadTimeSampling ==
    [][\A c \in Calls : Moves(c, "reorder", "advance") =>
          IF Len(run'[c].orders) = Len(run[c].orders) + 1
          THEN /\ rng' = Advance(rng)
               /\ LastOrder(run'[c]).lead
                     = lead_time_min
                          + (stream[rng] % (lead_time_max - lead_time_min + 1))
               /\ LastOrder(run'[c]).lead \in lead_time_min .. lead_time_max
               /\ run'[c].arrival_event[1].delay = LastOrder(run'[c]).lead
          ELSE /\ rng' = rng
               /\ run'[c].orders = run[c].orders]_vars

\* an order with the longest lead time, and a later day on which no order
\* was placed
C22_Witness ==
    /\ run["A"].pc = "advance"
    /\ Len(run["A"].orders) = 1
    /\ run["A"].orders[1].lead = lead_time_max
    /\ run["A"].orders[1].placed < run["A"].day

(***************************************************************************)
(* C23: order-up-to rule.  When an order is placed, on_hand_level +        *)
(* ordered quantity = S; the outstanding quantity and the pending arrival  *)
(* are not changed between placement and arrival; at arrival the whole     *)
(* quantity is added in one step and the tracker returns to idle.          *)
(***************************************************************************)
C23_OrderUpTo ==
    [][\A c \in Calls : (Started(c) /\ Started(c)') =>
          /\ (Moves(c, "reorder", "advance") /\ PlacedToday(run'[c])) =>
                /\ run'[c].level = run[c].level
                /\ run'[c].level + run'[c].on_order = run[c].S
                /\ LastOrder(run'[c]).qty = run'[c].on_order
                /\ run'[c].arrival_event # None
          /\ (run[c].pc \notin {"arrival", "reorder"}) =>
                /\ run'[c].on_order = run[c].on_order
                /\ run'[c].arrival_event = run[c].arrival_event
          /\ (Moves(c, "arrival", "draw") /\ ArrivedToday(run'[c])) =>
                /\ run'[c].level = run[c].level + run[c].on_order
                /\ run'[c].on_order = 0
                /\ run'[c].arrival_event = None]_vars

\* an order of two units has arrived: the level is back at S and the
\* tracker is idle
C23_Witness ==
    /\ run["A"].pc = "draw"
    /\ ArrivedToday(run["A"])
    /\ LastOrder(run["A"]).qty = 2
    /\ run["A"].level = run["A"].S
    /\ run["A"].on_order = 0
    /\ run["A"].arrival_event = None

(***************************************************************************)
(* C24: each daily demand sample is an integer d with                      *)
(* 0 <= d <= 2 x demand_mean, obtained from exactly 2 x demand_mean draws  *)
(* of the generator, and demand is sampled exactly once per simulated day. *)
(***************************************************************************)
C24_DemandSample ==
    [][\A c \in Calls :
          /\ Moves(c, "draw", "draw") =>
                /\ run'[c].trial = run[c].trial + 1
                /\ run'[c].trial <= 2 * demand_mean
                /\ rng' = Advance(rng)
          /\ Moves(c, "draw", "holding") =>
                /\ run[c].trial = 2 * demand_mean
                /\ rng' = rng
                /\ run'[c].demand \in 0 .. 2 * demand_mean
                /\ run'[c].demandCalls = run[c].demandCalls + 1
                /\ run'[c].demandCalls = run[c].day + 1
          /\ ~Moves(c, "draw", "holding") =>
                run'[c].demandCalls \in {run[c].demandCalls, 0}]_vars

\* the largest demand has been drawn on the second day
C24_Witness ==
    /\ run["A"].pc = "holding"
    /\ run["A"].day = 1
    /\ run["A"].demand = 2 * demand_mean
    /\ run["A"].demandCalls = 2

(***************************************************************************)
(* C25: for S >= 0 a run starts with on_hand_level = S and no outstanding  *)
(* order, and in every reachable state on_hand_level <= S, also right      *)
(* after an arrival.                                                       *)
(***************************************************************************)
C25_LevelAtMostS ==
    \A c \in Calls : (Started(c) /\ run[c].S >= 0) =>
        /\ run[c].level <= run[c].S
        /\ (run[c].pc = "arrival" /\ run[c].day = 0) =>
              /\ run[c].level = run[c].S
              /\ run[c].on_order = 0
              /\ run[c].arrival_event = None
              /\ run[c].orders = << >>

\* right after the arrival of a positive order on a later day
C25_Witness ==
    /\ run["A"].pc = "draw"
    /\ run["A"].S > 0
    /\ run["A"].day = 2
    /\ ArrivedToday(run["A"])
    /\ LastOrder(run["A"]).qty > 0
    /\ run["A"].level = run["A"].S

(***************************************************************************)
(* C26: after any sequence of add_node, remove_node, move_node, add_edge,  *)
(* remove_edge and reset_graph calls starting from an empty graph, every   *)
(* edge of the stored graph has both endpoints among the stored nodes;     *)
(* remove_node of an existing node removes exactly that node and its       *)
(* incident edges; remove_node, remove_edge and move_node on a missing     *)
(* target leave the node and edge sets unchanged.                          *)
(***************************************************************************)
NoDanglingEdge(files) ==
    \A e \in StoredLinks(files) :
        e.source \in StoredNodes(files) /\ e.target \in StoredNodes(files)

C26_GraphIntegrity ==
    /\ [] NoDanglingEdge(fs)
    /\ [][LET nodes == StoredNodes(fs)
              links == StoredLinks(fs)
              same == StoredNodes(fs') = nodes /\ StoredLinks(fs') = links
          IN  /\ last'.op = "remove_node" =>
                    IF last'.args.label \in nodes
                    THEN /\ StoredNodes(fs') = nodes \ {last'.args.label}
                         /\ StoredLinks(fs')
                               = {e \in links : /\ e.source # last'.args.label
                                                /\ e.target # last'.args.label}
                    ELSE same
              /\ last'.op = "remove_edge" =>
                    IF [source |-> last'.args.src, target |-> last'.args.dst]
                          \in links
                    THEN /\ StoredNodes(fs') = nodes
                         /\ StoredLinks(fs')
                               = links \ {[source |-> last'.args.src,
                                           target |-> last'.args.dst]}
                    ELSE same
              /\ last'.op = "move_node" => same]_vars

\* remove_node has just been called on a graph of two nodes: one node is
\* left, with its self-loop
C26_Witness ==
    /\ last.op = "remove_node"
    /\ last.args.label \notin StoredNodes(fs)
    /\ Cardinality(StoredNodes(fs)) = 1
    /\ Cardinality(StoredLinks(fs)) = 1

(***************************************************************************)
(* C27: after any sequence of graph tool calls and product tool calls,     *)
(* every station listed in every stored product route is a node of the     *)
(* stored graph.                                                           *)
(***************************************************************************)
C27_RoutesWithinGraph ==
    \A i \in DOMAIN load_products(fs) :
        \A k \in DOMAIN load_products(fs)[i].route :
            load_products(fs)[i].route[k] \in NodeIds(load_graph(fs))

(***************************************************************************)
(* C28: starting from an empty product store, after any sequence of        *)
(* add_product_route, remove_product_route and reset_product_routes calls  *)
(* no two stored routes share a label; add_product_route on an existing    *)
(* label overwrites that entry's route and color in place without changing *)
(* the number or order of entries; remove_product_route(label) leaves no   *)
(* entry with that label and leaves all other entries unchanged.           *)
(***************************************************************************)
UniqueLabels(products) ==
    \A i \in DOMAIN products, k \in DOMAIN products :
        products[i].label = products[k].label => i = k

C28_ProductStore ==
    /\ [] UniqueLabels(load_products(fs))
    /\ [][LET before == load_products(fs)
              after == load_products(fs')
          IN  /\ (/\ last'.op = "add_product_route"
                  /\ last'.value[1].success
                  /\ \E i \in DOMAIN before : before[i].label = last'.args.label) =>
                    /\ Len(after) = Len(before)
                    /\ \A i \in DOMAIN before :
                          IF before[i].label = last'.args.label
                          THEN after[i] = [label |-> last'.args.label,
                                           route |-> last'.args.route,
                                           color |-> last'.args.color]
                          ELSE after[i] = before[i]
              /\ last'.op = "remove_product_route" =>
                    /\ \A i \in DOMAIN after : after[i].label # last'.args.label
                    /\ after = SelectSeq(before,
                                         LAMBDA q : q.label # last'.args.label)
              /\ last'.op = "reset_product_routes" => after = << >>]_vars

\* the first of two entries has just been overwritten, or stored first:
\* the store holds two labels, the entry of the call's label in front
C28_Witness ==
    /\ last.op = "add_product_route"
    /\ last.value[1].success
    /\ Len(load_products(fs)) = 2
    /\ load_products(fs)[1].label = last.args.label
    /\ load_products(fs)[1].route = last.args.route
    /\ load_products(fs)[2].label # last.args.label

(***************************************************************************)
(* C29: when two graph tool invocations that change different parts of the *)
(* graph, add_node(a) and add_node(b) with a # b, run concurrently, each   *)
(* as load-modify-save, the stored graph after both have returned holds    *)
(* the node of each, for every interleaving of their load and save steps.  *)
(***************************************************************************)
C29_BothEffects ==
    (task # NoTasks /\ \A k \in DOMAIN task : task[k].pc = "returned") =>
        \A k \in DOMAIN task : task[k].args.label \in StoredNodes(fs)

====
